---- MODULE Spec2Model ----
(***************************************************************************)
(* A model of the stratumclient package (src/stratumclient.go): the Client *)
(* session (configuration, endpoint root, prefix, bearer token, expiry,    *)
(* opened flag), Open, login and the single dispatch path Call, with the   *)
(* verb wrappers Get/Post/Put/Delete/Unmarshal on top of it.               *)
(*                                                                         *)
(* Strings that the code takes apart (URLs, resource queries) are          *)
(* sequences of tokens in which "/" is the separator; every other string   *)
(* is a TLA+ string.  Instants are integer seconds.  The server is the     *)
(* environment: every request the client sends is answered by one of the   *)
(* responses of the specification that is checked.                         *)
(***************************************************************************)
EXTENDS Integers, Sequences, FiniteSets, TLC

VARIABLES
    Username,    \* Client.Username
    Password,    \* Client.Password
    BaseURL,     \* Client.BaseURL
    Timeout,     \* Client.Timeout
    prefix,      \* Client.prefix
    url,         \* Client.url (a *url.URL: NilURL or a parsed URL)
    token,       \* Client.token
    validUntil,  \* Client.validUntil
    opened,      \* Client.opened
    now,         \* the wall clock read by time.Now()
    last,        \* the operation that ran last: its arguments, inputs, result
    sent,        \* the HTTP requests the last operation sent, in order
    pre,         \* the Client as it was when the last operation started
    calls,       \* the concurrent callers of Call: where each one is in Call
    logins       \* the logins of concurrent callers that returned, in order

vars == <<Username, Password, BaseURL, Timeout, prefix, url, token,
          validUntil, opened, now, last, sent, pre, calls, logins>>

----------------------------------------------------------------------------
(* Bounds of the model *)

\* The clock stops advancing at this instant.
MaxTime == 3

----------------------------------------------------------------------------
(* Values *)

\* A nil *url.URL: the zero value of Client.url.
NilURL == [nil |-> TRUE, root |-> "", Path |-> <<>>]

\* time.Time{}: the zero instant, earlier than every instant of the clock and
\* than every expiry a login can store.
ZeroTime == 0 - 1000

\* The lifetimes (expires_in, seconds) the server may answer with; 0 is also
\* what an absent field decodes to.
Lifetimes == {0 - 1, 0, 2}

\* The access tokens the server may answer with; "" is also what an absent
\* field decodes to.
AccessTokens == {"", "abc", "xyz"}

LoginQuery == <<"login", "/", "v1">>

PlatformQuery == <<"/", "platform", "/">>

\* A resource query url.Parse rejects (an invalid escape).
BadQuery == <<"%zz">>

GoodURL == <<"https://a", "/", "v1">>

JSON == "application/json"

\* resp.Status, the status line of a response.
StatusLine(code) ==
    CASE code = 200 -> "200 OK"
      [] code = 201 -> "201 Created"
      [] code = 202 -> "202 Accepted"
      [] code = 204 -> "204 No Content"
      [] code = 400 -> "400 Bad Request"
      [] code = 404 -> "404 Not Found"
      [] code = 500 -> "500 Internal Server Error"
      [] OTHER -> ""

\* Response bodies: a JSON object (with the fields the two decoders read),
\* the JSON literal null, and bytes that are not JSON.
ObjectBody(tok, life, msg) ==
    [kind |-> "object", access_token |-> tok, expires_in |-> life, error |-> msg]

NullBody == [kind |-> "null", access_token |-> "", expires_in |-> 0, error |-> ""]

MalformedBody == [kind |-> "malformed", access_token |-> "", expires_in |-> 0, error |-> ""]

NoBody == [kind |-> "none", access_token |-> "", expires_in |-> 0, error |-> ""]

\* What the server (or the network) answers to one request: a transport
\* failure, or a status, a content type and a body.
TransportFailure == [fail |-> TRUE, code |-> 0, ct |-> "", body |-> NoBody]

Reply(code, ct, body) == [fail |-> FALSE, code |-> code, ct |-> ct, body |-> body]

----------------------------------------------------------------------------
(* The inputs of the three specifications.  Spec explores the credential   *)
(* over time with one configuration; SpecConfig explores the configuration *)
(* and every verb at one instant; SpecResp explores the responses.         *)

\* Spec: the caller's configuration, calls, and the server's answers (every
\* token and lifetime a login may return, and the ways a request fails).
CredConfigs == { [Username |-> "user", Password |-> "pw", BaseURL |-> GoodURL] }

CredMethods == {"get", "POST"}

CredQueries == {LoginQuery, PlatformQuery}

CredPayloads == {"nil", "value"}

CredResponses ==
    { TransportFailure,
      Reply(404, JSON, ObjectBody("", 0, "denied")),
      Reply(200, JSON, NullBody) }
    \cup { Reply(200, JSON, ObjectBody(tok, life, "")) :
              tok \in AccessTokens, life \in Lifetimes }

\* SpecConfig: every way the configuration is incomplete or invalid, every
\* verb, query and payload; the server accepts a login (with a token that
\* lasts, or one that has expired already), or the network fails.
BaseURLs == { <<>>,
              <<":">>,
              <<"https://a">>,
              GoodURL,
              <<"https://b", "/", "/", "v2", "/">> }

Configs == { [Username |-> "user", Password |-> "pw", BaseURL |-> b] : b \in BaseURLs }
           \cup { [Username |-> "", Password |-> "pw", BaseURL |-> GoodURL],
                  [Username |-> "user", Password |-> "", BaseURL |-> GoodURL] }

\* The verbs a caller passes to Call: in any case, and one that
\* http.NewRequest rejects.
Methods == {"GET", "get", "Get", "POST", "bad verb"}

Queries == {LoginQuery, PlatformQuery, BadQuery}

\* The payload of a call: none, a value that is sent (raw bytes, or a value
\* json.Marshal encodes), a value json.Marshal rejects (a channel).
Payloads == {"nil", "value", "badvalue"}

\* The destination of a verb wrapper: none, or a pointer json.Unmarshal
\* decodes into.
Destinations == {"nil", "struct"}

ConfigResponses ==
    { TransportFailure,
      Reply(200, JSON, ObjectBody("abc", 2, "")),
      Reply(200, JSON, ObjectBody("xyz", 0 - 1, "")) }

\* SpecResp: every status, content type and body.
StatusCodes == {200, 201, 202, 204, 400, 404, 500}

ContentTypes == {JSON, "application/json; charset=utf-8", "text/html", ""}

Bodies == { ObjectBody("abc", 2, "denied"), ObjectBody("", 0, ""), NullBody, MalformedBody }

AllResponses ==
    {TransportFailure}
    \cup { Reply(s, t, b) : s \in StatusCodes, t \in ContentTypes, b \in Bodies }

RespMethods == {"get", "POST"}

\* SpecAddr: base URLs Open accepts, with a path that has leading, trailing
\* or doubled slashes or consists of slashes only, and resource queries with
\* and without slashes around them.
AddrBaseURLs == { GoodURL,
                  <<"https://a", "/", "v1", "/">>,
                  <<"https://a", "/">>,
                  <<"https://b", "/", "/", "v2", "/">> }

AddrConfigs == { [Username |-> "user", Password |-> "pw", BaseURL |-> b] : b \in AddrBaseURLs }

AddrQueries == { <<"platform">>,
                 PlatformQuery,
                 <<"/", "platform", "/", "?x=1">>,
                 <<"/", "/", "platform">>,
                 <<"/">> }

AddrMethods == {"POST"}

AddrResponses == { TransportFailure, Reply(200, JSON, ObjectBody("abc", 2, "")) }

\* SpecDecode: the verb wrappers with and without a destination, answered
\* with a body that decodes (an object, null), one that does not, an API
\* error, or not at all.
DecodeMethods == {"delete", "POST"}

DecodeQueries == {PlatformQuery}

DecodePayloads == {"nil", "value"}

DecodeResponses ==
    { TransportFailure,
      Reply(404, JSON, ObjectBody("", 0, "denied")),
      Reply(200, JSON, ObjectBody("abc", 2, "")),
      Reply(200, JSON, NullBody),
      Reply(200, JSON, MalformedBody) }

----------------------------------------------------------------------------
(* Helpers of the standard library, as the code uses them *)

\* strings.ToUpper left out: the verb is compared as the caller wrote it.
ToUpperIdentity(method) == method

\* strings.ToUpper on the verbs.
ToUpper(method) ==
    CASE method = "get" -> "GET"
      [] method = "post" -> "POST"
      [] method = "put" -> "PUT"
      [] method = "delete" -> "DELETE"
      [] method = "Get" -> "GET"
      [] method = "bad verb" -> "BAD VERB"
      [] OTHER -> method

RECURSIVE TrimLeft(_)
\* strings.TrimLeft(s, "/")
TrimLeft(s) == IF s # <<>> /\ Head(s) = "/" THEN TrimLeft(Tail(s)) ELSE s

RECURSIVE TrimRight(_)
\* strings.TrimRight(s, "/")
TrimRight(s) ==
    IF s # <<>> /\ s[Len(s)] = "/" THEN TrimRight(SubSeq(s, 1, Len(s) - 1)) ELSE s

\* Whether url.Parse rejects the string: a missing protocol scheme (":") or
\* an invalid escape ("%zz").
URLParseFails(s) ==
    \/ s # <<>> /\ s[1] = ":"
    \/ \E i \in 1..Len(s) : s[i] = "%zz"

\* url.Parse of a string it accepts: scheme and host, and the path.
URLParse(s) ==
    IF s # <<>> /\ s[1] # "/"
    THEN [nil |-> FALSE, root |-> s[1], Path |-> Tail(s)]
    ELSE [nil |-> FALSE, root |-> "", Path |-> s]

\* (*url.URL).String()
URLString(u) == (IF u.root = "" THEN <<>> ELSE <<u.root>>) \o u.Path

\* Whether http.NewRequest accepts the (upper-cased) method.
ValidMethod(method) == method \in {"GET", "POST", "PUT", "DELETE"}

----------------------------------------------------------------------------
(* The Client, as one record, and the results of its methods *)

Client ==
    [Username |-> Username, Password |-> Password, BaseURL |-> BaseURL,
     Timeout |-> Timeout, prefix |-> prefix, url |-> url, token |-> token,
     validUntil |-> validUntil, opened |-> opened]

\* What a method returns: kind "ok" with the body, or the kind of error (for
\* the structured API error and the generic error, with the status), or
\* "panic" when the method does not return at all (a nil dereference), or
\* "blocked" while it waits for a response that has not been supplied.
Result(kind, code, body) ==
    [kind |-> kind, code |-> code, status |-> StatusLine(code), body |-> body]

Ok(body) == Result("ok", 0, body)

Err(kind) == Result(kind, 0, NoBody)

Panic == Result("panic", 0, NoBody)

Blocked == Result("blocked", 0, NoBody)

\* The state a method leaves: the Client, its result, the requests sent so
\* far and the responses not yet consumed.
Ret(c, res, snt, rs) == [c |-> c, res |-> res, sent |-> snt, rs |-> rs]

----------------------------------------------------------------------------
(* Call, login and Open *)

\* Call, line 237: a payload with the read verb is refused.
PayloadNotAllowed(method, data) == data # "nil" /\ method = "GET"

\* Identity-based authorization for every verb on the login resource.
UsesBasicAnyVerb(method, query) == query = LoginQuery

\* Call, line 282: the request that gets identity-based (Basic) authorization.
UsesBasic(method, query) == query = LoginQuery /\ method = "GET"

\* The freshness check without the expiry: only a missing token is stale.
TokenStaleMissingOnly(c, t) == c.token = ""

\* The freshness check that finds every token stale.
TokenStaleAlways(c, t) == TRUE

\* Call, line 285: the held token is missing or expired.
TokenStale(c, t) == c.token = "" \/ t > c.validUntil

\* Every 2xx status taken as a success.
IsSuccessAny2xx(code) == code \in 200..299

\* Call, line 317: the two status codes that are a success.
IsSuccess(code) == code = 200 \/ code = 201

\* Call, lines 241-248: the address of the request, or the not-opened error.
\* The caller has checked that c.url is not nil.
Address(c, query) ==
    LET cURL == TrimRight(URLString(c.url)) IN
    IF query = LoginQuery THEN cURL \o <<"/">> \o query
    ELSE cURL \o <<"/">> \o TrimRight(TrimLeft(c.prefix)) \o <<"/">> \o TrimLeft(query)

\* Call, lines 319-326: the error body decoded into a *ErrorResponse through
\* a pointer to that pointer, then given the status.  The literal null sets
\* the pointer to nil, and the assignment of Status dereferences it.
ErrorResponse(resp) ==
    IF resp.body.kind = "malformed" THEN Err("decode")
    ELSE IF resp.body.kind = "null" THEN Panic
    ELSE Result("apierror", resp.code, resp.body)

\* Call, lines 305-335: the outcome of the request from its response.
Classify(resp) ==
    IF resp.fail THEN Err("transport")
    ELSE IF ~IsSuccess(resp.code) THEN
        IF resp.ct = JSON THEN ErrorResponse(resp)
        ELSE Result("status", resp.code, NoBody)
    ELSE IF resp.ct # JSON THEN Err("contenttype")
    ELSE Ok(resp.body)

\* login, lines 347-353: the login body decoded into a *LoginResponse through
\* a pointer to that pointer, and token and expiry stored.  The literal null
\* sets the pointer to nil, and the read of AccessToken dereferences it.
StoreLogin(r, t) ==
    IF r.res.body.kind = "malformed" THEN [r EXCEPT !.res = Err("decode")]
    ELSE IF r.res.body.kind = "null" THEN [r EXCEPT !.res = Panic]
    ELSE [r EXCEPT !.c.token = r.res.body.access_token,
                   !.c.validUntil = t + r.res.body.expires_in,
                   !.res = Ok(NoBody)]

RECURSIVE Call(_, _, _, _, _, _)

\* A login that tries the exchange a second time when the first one fails.
loginRetry(c, t, rs) ==
    LET r == Call(c, "GET", LoginQuery, "nil", t, rs) IN
    IF r.res.kind = "ok" THEN StoreLogin(r, t)
    ELSE IF r.res.kind \in {"blocked", "panic"} THEN r
    ELSE LET r2 == Call(r.c, "GET", LoginQuery, "nil", t, r.rs)
             all == r.sent \o r2.sent
         IN  IF r2.res.kind # "ok" THEN [r2 EXCEPT !.sent = all]
             ELSE [StoreLogin(r2, t) EXCEPT !.sent = all]

\* login, lines 341-356.  t is the instant time.Now() returns, rs the
\* responses the server is going to give.
login(c, t, rs) ==
    LET r == Call(c, "GET", LoginQuery, "nil", t, rs) IN
    IF r.res.kind # "ok" THEN r ELSE StoreLogin(r, t)

\* Call, lines 282-294: the authorization of the request.  The result is the
\* state after a refresh of the credential, if one was due, with kind "ok"
\* when the request is to be sent.
Authorize(c, method, query, t, rs) ==
    IF UsesBasic(method, query) THEN Ret(c, Ok(NoBody), <<>>, rs)
    ELSE IF TokenStale(c, t)
         THEN login([c EXCEPT !.token = "", !.validUntil = ZeroTime], t, rs)
         ELSE Ret(c, Ok(NoBody), <<>>, rs)

\* The request Call hands to the transport, with what it was sent under.
Request(c, method, query, cURL) ==
    [method |-> method, query |-> query, url |-> cURL,
     auth |-> IF UsesBasic(method, query) THEN "Basic" ELSE "Bearer",
     cred |-> IF UsesBasic(method, query) THEN <<c.Username, c.Password>> ELSE <<c.token>>,
     opened |-> c.opened]

\* Call, lines 234-336.
Call(c, method0, query, data, t, rs) ==
    LET method == ToUpper(method0) IN
    IF PayloadNotAllowed(method, data) THEN Ret(c, Err("usage"), <<>>, rs)
    ELSE IF c.url.nil THEN Ret(c, Panic, <<>>, rs)
    ELSE IF query # LoginQuery /\ ~c.opened THEN Ret(c, Err("notopened"), <<>>, rs)
    ELSE IF URLParseFails(Address(c, query)) THEN Ret(c, Err("urlparse"), <<>>, rs)
    ELSE IF data = "badvalue" THEN Ret(c, Err("marshal"), <<>>, rs)
    ELSE IF ~ValidMethod(method) THEN Ret(c, Err("newrequest"), <<>>, rs)
    ELSE LET a == Authorize(c, method, query, t, rs) IN
         IF a.res.kind # "ok" THEN a
         ELSE LET snt == a.sent \o <<Request(a.c, method, query, Address(c, query))>> IN
              IF a.rs = <<>> THEN Ret(a.c, Blocked, snt, a.rs)
              ELSE Ret(a.c, Classify(Head(a.rs)), snt, Tail(a.rs))

\* The validation of Open without the check of Password.
MissingFieldNoPassword(c) == c.Username = "" \/ c.BaseURL = <<>>

\* Open, lines 134-142: the configuration field that is missing.
MissingField(c) == c.Username = "" \/ c.Password = "" \/ c.BaseURL = <<>>

\* Open, lines 133-165.
Open(c, t, rs) ==
    IF MissingField(c) THEN Ret(c, Err("missing"), <<>>, rs)
    ELSE LET c1 == [c EXCEPT !.Timeout = IF @ = 0 THEN 30 ELSE @] IN
         IF URLParseFails(c1.BaseURL) THEN Ret(c1, Err("urlparse"), <<>>, rs)
         ELSE LET c2 == [c1 EXCEPT !.url = URLParse(c1.BaseURL)] IN
              IF c2.url.Path = <<>> THEN Ret(c2, Err("missingpath"), <<>>, rs)
              ELSE LET c3 == [c2 EXCEPT !.prefix = c2.url.Path, !.url.Path = <<>>]
                       r == login(c3, t, rs)
                   IN  IF r.res.kind # "ok" THEN r
                       ELSE [r EXCEPT !.c.opened = TRUE]

\* A decoder that accepts every body.
DecodesAnything(body, resp) == TRUE

\* json.Unmarshal of a response body into the caller's destination.
Decodes(body, resp) == body.kind \in {"object", "null"}

\* Unmarshal, lines 217-228.
Unmarshal(c, method, query, data, resp, t, rs) ==
    LET r == Call(c, method, query, data, t, rs) IN
    IF r.res.kind # "ok" THEN r
    ELSE IF resp # "nil"
         THEN IF Decodes(r.res.body, resp) THEN r ELSE [r EXCEPT !.res = Err("decode")]
         ELSE r

\* Get, lines 173-175.
Get(c, query, resp, t, rs) == Unmarshal(c, "GET", query, "nil", resp, t, rs)

\* Delete, lines 184-186.
Delete(c, query, post, resp, t, rs) == Unmarshal(c, "DELETE", query, post, resp, t, rs)

\* Put, lines 195-197.
Put(c, query, post, resp, t, rs) == Unmarshal(c, "PUT", query, post, resp, t, rs)

\* Post, lines 206-208.
Post(c, query, post, resp, t, rs) == Unmarshal(c, "POST", query, post, resp, t, rs)

----------------------------------------------------------------------------
(* The state machine: a caller that owns one Client and uses it from one   *)
(* goroutine, the clock, and the server                                    *)

NoArgs == [method |-> "", query |-> <<>>, data |-> "nil", dest |-> "nil"]

Args(method, query, data, dest) ==
    [method |-> method, query |-> query, data |-> data, dest |-> dest]

Idle == [op |-> "none", args |-> NoArgs, t |-> 0, res |-> Ok(NoBody), rs |-> <<>>]

\* The goroutines that call Call on the one Client at the same time.
Goroutines == {1, 2}

\* A goroutine that is not in Call.
NotCalling == [pc |-> "idle", resp |-> NoBody]

\* An unrecovered panic ends the program.
Crashed == last.res.kind = "panic"

\* No operation is under way: the caller is free to start one.
Ready == last.op = "none"

Init ==
    /\ Username = ""
    /\ Password = ""
    /\ BaseURL = <<>>
    /\ Timeout = 0
    /\ prefix = <<>>
    /\ url = NilURL
    /\ token = ""
    /\ validUntil = ZeroTime
    /\ opened = FALSE
    /\ now = 0
    /\ last = Idle
    /\ sent = <<>>
    /\ pre = Client
    /\ calls = [g \in Goroutines |-> NotCalling]
    /\ logins = <<>>

\* The Client becomes c.
Becomes(c) ==
    /\ Username' = c.Username
    /\ Password' = c.Password
    /\ BaseURL' = c.BaseURL
    /\ Timeout' = c.Timeout
    /\ prefix' = c.prefix
    /\ url' = c.url
    /\ token' = c.token
    /\ validUntil' = c.validUntil
    /\ opened' = c.opened

\* Operation op with arguments args ends in r, having consumed responses rs.
Finish(op, args, r, rs) ==
    /\ Becomes(r.c)
    /\ last' = [op |-> op, args |-> args, t |-> now, res |-> r.res, rs |-> rs]
    /\ sent' = r.sent
    /\ pre' = Client
    /\ now' = now
    /\ UNCHANGED <<calls, logins>>

\* The sequences of responses the server may give to one operation.
ResponseSeqs(R) ==
    {<<>>} \cup { <<r1>> : r1 \in R } \cup { <<r1, r2>> : r1 \in R, r2 \in R }

\* Operation op with arguments a, given the responses rs, ends in m: the
\* server answers each request the operation sends, and the operation consumes
\* exactly the responses to the requests it sends.  An operation that sends a
\* request after two responses is left waiting for the answer.
Run(op, a, m, rs) ==
    /\ \/ m.res.kind # "blocked" /\ m.rs = <<>>
       \/ m.res.kind = "blocked" /\ Len(rs) = 2
    /\ Finish(op, a, m, rs)

\* The caller sets the configuration fields of the Client.
Configure(CS) ==
    /\ Ready
    /\ \E cfg \in CS :
        /\ Username' = cfg.Username
        /\ Password' = cfg.Password
        /\ BaseURL' = cfg.BaseURL
    /\ UNCHANGED <<Timeout, prefix, url, token, validUntil, opened, now>>
    /\ UNCHANGED <<last, sent, calls, logins>>
    /\ pre' = Client'

\* Time passes.
Tick ==
    /\ Ready
    /\ now < MaxTime
    /\ now' = now + 1
    /\ UNCHANGED <<Username, Password, BaseURL, Timeout, prefix, url, token,
                   validUntil, opened>>
    /\ UNCHANGED <<last, sent, pre, calls, logins>>

\* The caller takes the result of the operation that ran last.
Return ==
    /\ ~Ready
    /\ ~Crashed
    /\ last' = Idle
    /\ sent' = <<>>
    /\ pre' = Client
    /\ UNCHANGED <<Username, Password, BaseURL, Timeout, prefix, url, token,
                   validUntil, opened, now, calls, logins>>

DoOpen(R) ==
    /\ Ready
    /\ \E rs \in ResponseSeqs(R) :
        Run("Open", NoArgs, Open(Client, now, rs), rs)

DoCall(MS, QS, DS, R) ==
    /\ Ready
    /\ \E method \in MS, query \in QS, data \in DS, rs \in ResponseSeqs(R) :
        Run("Call", Args(method, query, data, "nil"),
            Call(Client, method, query, data, now, rs), rs)

DoUnmarshal(MS, QS, DS, R) ==
    /\ Ready
    /\ \E method \in MS, query \in QS, data \in DS, resp \in Destinations,
          rs \in ResponseSeqs(R) :
        Run("Unmarshal", Args(method, query, data, resp),
            Unmarshal(Client, method, query, data, resp, now, rs), rs)

DoGet(QS, R) ==
    /\ Ready
    /\ \E query \in QS, resp \in Destinations, rs \in ResponseSeqs(R) :
        Run("Get", Args("GET", query, "nil", resp),
            Get(Client, query, resp, now, rs), rs)

DoDelete(QS, DS, R) ==
    /\ Ready
    /\ \E query \in QS, data \in DS, resp \in Destinations, rs \in ResponseSeqs(R) :
        Run("Delete", Args("DELETE", query, data, resp),
            Delete(Client, query, data, resp, now, rs), rs)

DoPut(QS, DS, R) ==
    /\ Ready
    /\ \E query \in QS, data \in DS, resp \in Destinations, rs \in ResponseSeqs(R) :
        Run("Put", Args("PUT", query, data, resp),
            Put(Client, query, data, resp, now, rs), rs)

DoPost(QS, DS, R) ==
    /\ Ready
    /\ \E query \in QS, data \in DS, resp \in Destinations, rs \in ResponseSeqs(R) :
        Run("Post", Args("POST", query, data, resp),
            Post(Client, query, data, resp, now, rs), rs)

\* The credential over time.
Next ==
    \/ Return
    \/ Tick
    \/ Configure(CredConfigs)
    \/ DoOpen(CredResponses)
    \/ DoCall(CredMethods, CredQueries, CredPayloads, CredResponses)

Spec == Init /\ [][Next]_vars

\* The configuration and the verbs.
NextConfig ==
    \/ Return
    \/ Configure(Configs)
    \/ DoOpen(ConfigResponses)
    \/ DoCall(Methods, Queries, Payloads, ConfigResponses)
    \/ DoUnmarshal(Methods, Queries, Payloads, ConfigResponses)
    \/ DoGet(Queries, ConfigResponses)
    \/ DoDelete(Queries, Payloads, ConfigResponses)
    \/ DoPut(Queries, Payloads, ConfigResponses)
    \/ DoPost(Queries, Payloads, ConfigResponses)

SpecConfig == Init /\ [][NextConfig]_vars

\* The responses.
NextResp ==
    \/ Return
    \/ Configure(CredConfigs)
    \/ DoOpen(AllResponses)
    \/ DoCall(RespMethods, CredQueries, {"nil"}, AllResponses)

SpecResp == Init /\ [][NextResp]_vars

\* The addresses.
NextAddr ==
    \/ Return
    \/ Configure(AddrConfigs)
    \/ DoOpen(AddrResponses)
    \/ DoCall(AddrMethods, AddrQueries, {"nil"}, AddrResponses)

SpecAddr == Init /\ [][NextAddr]_vars

\* The verb wrappers and their destinations.
NextDecode ==
    \/ Return
    \/ Configure(CredConfigs)
    \/ DoOpen(DecodeResponses)
    \/ DoUnmarshal(DecodeMethods, DecodeQueries, DecodePayloads, DecodeResponses)
    \/ DoGet(DecodeQueries, DecodeResponses)
    \/ DoDelete(DecodeQueries, DecodePayloads, DecodeResponses)
    \/ DoPut(DecodeQueries, DecodePayloads, DecodeResponses)
    \/ DoPost(DecodeQueries, DecodePayloads, DecodeResponses)

SpecDecode == Init /\ [][NextDecode]_vars

----------------------------------------------------------------------------
(* Two goroutines in Call on one Client, without a lock.  Each goroutine   *)
(* makes one authenticated call (POST of a resource-query, no payload).    *)
(* A step is one access of a field of the Client, or one exchange with the *)
(* server; the steps of the two goroutines interleave freely.  What Call   *)
(* does before line 285 reads only fields no goroutine writes.             *)

\* The login Open is answered with: a token that lasts one second.
RaceOpenResponses == { Reply(200, JSON, ObjectBody("abc", 1, "")) }

\* What the server answers the login of goroutine g with: every login gets
\* a token and a lifetime of its own.
RaceLogin(g) == IF g = 1 THEN ObjectBody("t1", 2, "") ELSE ObjectBody("t2", 3, "")

\* No goroutine is in Call.
Quiet == \A g \in Goroutines : calls[g].pc = "idle"

\* Goroutine g goes to pc, holding the login response resp.
Goto(g, pc, resp) == calls' = [calls EXCEPT ![g] = [pc |-> pc, resp |-> resp]]

\* Goroutine g enters Call on an opened Client, lines 234-281.
CallBegin(g) ==
    /\ Ready
    /\ opened
    /\ calls[g].pc = "idle"
    /\ Goto(g, "checkToken", NoBody)
    /\ UNCHANGED <<Username, Password, BaseURL, Timeout, prefix, url, token,
                   validUntil, opened, now, last, sent, pre, logins>>

\* Line 285, left operand: c.token == "".
CheckToken(g) ==
    /\ calls[g].pc = "checkToken"
    /\ Goto(g, IF token = "" THEN "clearToken" ELSE "checkExpiry", NoBody)
    /\ UNCHANGED <<Username, Password, BaseURL, Timeout, prefix, url, token,
                   validUntil, opened, now, last, sent, pre, logins>>

\* Line 285, right operand: time.Now().After(c.validUntil).
CheckExpiry(g) ==
    /\ calls[g].pc = "checkExpiry"
    /\ Goto(g, IF now > validUntil THEN "clearToken" ELSE "send", NoBody)
    /\ UNCHANGED <<Username, Password, BaseURL, Timeout, prefix, url, token,
                   validUntil, opened, now, last, sent, pre, logins>>

\* Line 287: c.token = "".
ClearToken(g) ==
    /\ calls[g].pc = "clearToken"
    /\ token' = ""
    /\ Goto(g, "clearExpiry", NoBody)
    /\ UNCHANGED <<Username, Password, BaseURL, Timeout, prefix, url,
                   validUntil, opened, now, last, sent, pre, logins>>

\* Line 288: c.validUntil = time.Time{}.
ClearExpiry(g) ==
    /\ calls[g].pc = "clearExpiry"
    /\ validUntil' = ZeroTime
    /\ Goto(g, "login", NoBody)
    /\ UNCHANGED <<Username, Password, BaseURL, Timeout, prefix, url, token,
                   opened, now, last, sent, pre, logins>>

\* Lines 289 and 342: login sends the login exchange.
LoginSend(g) ==
    /\ calls[g].pc = "login"
    /\ sent' = Append(sent, Request(Client, "GET", LoginQuery, Address(Client, LoginQuery)))
    /\ Goto(g, "loginWait", NoBody)
    /\ UNCHANGED <<Username, Password, BaseURL, Timeout, prefix, url, token,
                   validUntil, opened, now, last, pre, logins>>

\* Lines 342-350: the login exchange is answered and the body decoded, or
\* it fails and Call returns the error (lines 289-291).
LoginReceive(g) ==
    /\ calls[g].pc = "loginWait"
    /\ \/ Goto(g, "storeToken", RaceLogin(g))
       \/ Goto(g, "done", NoBody)
    /\ UNCHANGED <<Username, Password, BaseURL, Timeout, prefix, url, token,
                   validUntil, opened, now, last, sent, pre, logins>>

\* Line 352: c.token = resp.AccessToken.
StoreToken(g) ==
    /\ calls[g].pc = "storeToken"
    /\ token' = calls[g].resp.access_token
    /\ Goto(g, "storeExpiry", calls[g].resp)
    /\ UNCHANGED <<Username, Password, BaseURL, Timeout, prefix, url,
                   validUntil, opened, now, last, sent, pre, logins>>

\* Lines 353-355: c.validUntil = time.Now().Add(...), and login returns.
StoreExpiry(g) ==
    /\ calls[g].pc = "storeExpiry"
    /\ validUntil' = now + calls[g].resp.expires_in
    /\ logins' = Append(logins, [g |-> g, token |-> calls[g].resp.access_token,
                                 validUntil |-> now + calls[g].resp.expires_in])
    /\ Goto(g, "send", calls[g].resp)
    /\ UNCHANGED <<Username, Password, BaseURL, Timeout, prefix, url, token,
                   opened, now, last, sent, pre>>

\* Lines 293-305: the Authorization header is set from c.token and the
\* request is sent.
SendRequest(g) ==
    /\ calls[g].pc = "send"
    /\ sent' = Append(sent, Request(Client, "POST", PlatformQuery,
                                    Address(Client, PlatformQuery)))
    /\ Goto(g, "await", calls[g].resp)
    /\ UNCHANGED <<Username, Password, BaseURL, Timeout, prefix, url, token,
                   validUntil, opened, now, last, pre, logins>>

\* Lines 305-335: the request is answered and Call returns.
Receive(g) ==
    /\ calls[g].pc = "await"
    /\ Goto(g, "done", calls[g].resp)
    /\ UNCHANGED <<Username, Password, BaseURL, Timeout, prefix, url, token,
                   validUntil, opened, now, last, sent, pre, logins>>

\* One step of one goroutine in Call.
ConcurrentCall ==
    \E g \in Goroutines :
        \/ CallBegin(g)
        \/ CheckToken(g)
        \/ CheckExpiry(g)
        \/ ClearToken(g)
        \/ ClearExpiry(g)
        \/ LoginSend(g)
        \/ LoginReceive(g)
        \/ StoreToken(g)
        \/ StoreExpiry(g)
        \/ SendRequest(g)
        \/ Receive(g)

\* The session is configured and opened by one goroutine, time passes, and
\* then two goroutines call at the same time.
NextRace ==
    \/ Quiet /\ Return
    \/ Quiet /\ Tick
    \/ Quiet /\ Configure(CredConfigs)
    \/ Quiet /\ DoOpen(RaceOpenResponses)
    \/ ConcurrentCall

SpecRace == Init /\ [][NextRace]_vars

----------------------------------------------------------------------------
(* Vocabulary of the properties *)

\* The operation that ran last is Call, directly or through a verb wrapper.
IsCallOp == last.op \in {"Call", "Unmarshal", "Get", "Post", "Put", "Delete"}

\* The spellings of the read verb.
ReadVerbs == {"GET", "get", "Get"}

\* The verb of the last call as it goes on the wire.
Verb == IF last.args.method \in ReadVerbs THEN "GET" ELSE last.args.method

\* The login exchange: the GET of login/v1 with identity-based authorization.
IsLoginExchange(q) == q.method = "GET" /\ q.query = LoginQuery /\ q.auth = "Basic"

\* The last call is the read of the login resource itself.
IsLoginRead == last.args.query = LoginQuery /\ Verb = "GET"

\* The last call passes a payload with the read verb.
IsReadWithPayload == Verb = "GET" /\ last.args.data # "nil"

\* The last call is an authenticated one whose request can be built: it is
\* not the login read, and its arguments pass the payload, address,
\* serialization and verb checks that come before the authorization.
IsAuthenticatedCall ==
    /\ IsCallOp
    /\ ~IsLoginRead
    /\ ~IsReadWithPayload
    /\ last.res.kind \notin {"urlparse", "marshal", "newrequest"}

\* A response the login exchange accepts and decodes into a token.
LoginAccepted(resp) ==
    /\ ~resp.fail
    /\ resp.code \in {200, 201}
    /\ resp.ct = JSON
    /\ resp.body.kind = "object"

\* The request of the last call itself (not the login of a refresh) was sent
\* and answered; the answer is the last response consumed.
OwnRequestAnswered ==
    /\ sent # <<>>
    /\ Len(last.rs) = Len(sent)
    /\ sent[Len(sent)].method = Verb
    /\ sent[Len(sent)].query = last.args.query

OwnResponse == last.rs[Len(last.rs)]

\* The credential is as it was when the last operation started.
CredentialUnchanged == token = pre.token /\ validUntil = pre.validUntil

----------------------------------------------------------------------------
(* C1 *)

\* C1: a call sends its request with the held token, without a login before
\* it, only if at the freshness check a token is held and the current instant
\* is strictly before the stored expiry; at or past the expiry the token is
\* cleared and a login comes first.
C1_BearerOnlyBeforeExpiry ==
    (IsCallOp /\ sent # <<>> /\ sent[1].auth = "Bearer")
        => (pre.token # "" /\ last.t < pre.validUntil)

----------------------------------------------------------------------------
(* C2 *)

\* C2: an authenticated call on an opened session whose stored expiry is in
\* the past issues exactly one login exchange, before anything else; the
\* original request is sent exactly when that login is accepted, after it,
\* with the token that login returned, and the stored expiry is the instant
\* of the login plus the lifetime it returned.
C2_ExpiredTokenRefreshedOnce ==
    (IsAuthenticatedCall /\ pre.opened /\ pre.validUntil < last.t) =>
        /\ Len(sent) \in {1, 2}
        /\ Len(last.rs) = Len(sent)
        /\ IsLoginExchange(sent[1])
        /\ Cardinality({i \in 1..Len(sent) : IsLoginExchange(sent[i])}) = 1
        /\ (Len(sent) = 2) <=> LoginAccepted(last.rs[1])
        /\ Len(sent) = 2 =>
            /\ sent[2].auth = "Bearer"
            /\ sent[2].method = Verb
            /\ sent[2].query = last.args.query
            /\ sent[2].cred = <<last.rs[1].body.access_token>>
            /\ token = last.rs[1].body.access_token
            /\ validUntil = last.t + last.rs[1].body.expires_in

\* A call one second after the expiry of a held token logs in again, and its
\* request carries the new token.
C2_Witness ==
    /\ IsAuthenticatedCall
    /\ pre.opened
    /\ pre.token # ""
    /\ last.t = pre.validUntil + 1
    /\ Len(sent) = 2
    /\ token # pre.token
    /\ token # ""
    /\ validUntil = last.t + 2
    /\ last.res.kind = "ok"

----------------------------------------------------------------------------
(* C3 *)

\* C3: every request sent while opened is false is the login exchange.
C3_OnlyLoginWhileNotOpened ==
    \A i \in 1..Len(sent) : ~sent[i].opened => IsLoginExchange(sent[i])

----------------------------------------------------------------------------
(* C4 *)

\* C4: a call with a resource-query other than login/v1 (and no payload on a
\* read) on a session on which no Open has succeeded returns the not-opened
\* error, sends nothing and leaves token and expiry as they were.
C4_NotOpenedError ==
    (IsCallOp /\ ~pre.opened /\ last.args.query # LoginQuery /\ ~IsReadWithPayload)
        => (last.res.kind = "notopened" /\ sent = <<>> /\ CredentialUnchanged)

----------------------------------------------------------------------------
(* C5 *)

\* The configuration Open started with is one it refuses: a field is empty,
\* the base URL does not parse, or it has no path.
InvalidConfig ==
    \/ pre.Username = ""
    \/ pre.Password = ""
    \/ pre.BaseURL = <<>>
    \/ pre.BaseURL = <<":">>
    \/ Len(pre.BaseURL) = 1

\* C5: Open with an empty field, an unparsable base URL or one without a path
\* returns an error, sends no request and leaves token and expiry as they
\* were.
C5_InvalidConfigNoNetwork ==
    (last.op = "Open" /\ InvalidConfig)
        => /\ last.res.kind \in {"missing", "urlparse", "missingpath"}
           /\ sent = <<>>
           /\ CredentialUnchanged

\* Open refuses a base URL without a path on a session that holds a token.
C5_Witness ==
    /\ last.op = "Open"
    /\ last.res.kind = "missingpath"
    /\ pre.token = "abc"
    /\ token = "abc"
    /\ sent = <<>>

----------------------------------------------------------------------------
(* C6 *)

\* C6: after an Open that fails because Username, Password or BaseURL is
\* empty, opened is false, whatever the session was before.
C6_FailedOpenNotOpened ==
    (last.op = "Open" /\ (pre.Username = "" \/ pre.Password = "" \/ pre.BaseURL = <<>>))
        => ~opened

----------------------------------------------------------------------------
(* C7 *)

\* C7: right after Open returns without error, opened is true and the token
\* is non-empty with an expiry strictly after the current instant.
C7_OpenHoldsValidCredential ==
    (last.op = "Open" /\ last.res.kind = "ok")
        => (opened /\ token # "" /\ now < validUntil)

----------------------------------------------------------------------------
(* C8 *)

\* C8: a call with the read verb (in any letter case) and a payload returns
\* the usage error, sends nothing, and leaves the whole session as it was.
C8_ReadWithPayloadRefused ==
    (IsCallOp /\ IsReadWithPayload)
        => (last.res.kind = "usage" /\ sent = <<>> /\ Client = pre)

\* A lower-case read with a payload is refused on an opened session whose
\* token has expired: no login is triggered.
C8_Witness ==
    /\ last.op = "Call"
    /\ last.args.method = "get"
    /\ last.args.data = "value"
    /\ pre.opened
    /\ pre.token # ""
    /\ pre.validUntil < last.t
    /\ last.res.kind = "usage"

----------------------------------------------------------------------------
(* C9 *)

Is2xx(code) == code \in 200..299

----------------------------------------------------------------------------
(* C10 *)

\* C10: a non-2xx response with the JSON content type, whatever its body,
\* makes Call return an error: the structured API error with the status of
\* the response, or a decode error.
C10_ErrorBodyAlwaysAnError ==
    (last.op = "Call" /\ OwnRequestAnswered /\ ~OwnResponse.fail
        /\ ~Is2xx(OwnResponse.code) /\ OwnResponse.ct = JSON)
    => \/ /\ last.res.kind = "apierror"
          /\ last.res.code = OwnResponse.code
          /\ last.res.status = StatusLine(OwnResponse.code)
       \/ last.res.kind = "decode"

----------------------------------------------------------------------------
(* C11 *)

\* A string without the slashes around it.
Core(s) == TrimRight(TrimLeft(s))

\* C11: the address of a request for a resource-query is the endpoint root,
\* the prefix and the resource-query with exactly one "/" between root and
\* prefix and exactly one "/" between prefix and resource-query, for every
\* base URL Open accepts and whatever slashes surround prefix and query.
C11_ExactlyOneSeparator ==
    (last.op = "Call" /\ OwnRequestAnswered /\ last.args.query # LoginQuery) =>
        LET a == sent[Len(sent)].url
            p == Core(pre.prefix)
            q == TrimLeft(last.args.query)
            n == Len(p)
        IN  /\ a = <<pre.url.root, "/">> \o p \o <<"/">> \o q
            /\ a[3] # "/"
            /\ a[n + 2] # "/"
            /\ Len(a) >= n + 4 => a[n + 4] # "/"

----------------------------------------------------------------------------
(* C12 *)

\* The answer to a login exchange makes the login fail with an error: the
\* transport fails, the status is not a success (a structured API error or
\* a bare status), the content type is not JSON, or the body does not decode.
LoginFailed(resp) ==
    /\ ~LoginAccepted(resp)
    /\ ~(~resp.fail /\ resp.ct = JSON /\ resp.body.kind = "null")

\* C12: when the login exchange started by Open or by the credential refresh
\* of a call fails, the failure is returned, nothing is sent after the one
\* login exchange, and the session holds no token afterwards: the token is
\* empty and the expiry is the zero instant.
C12_FailedLoginClearsCredential ==
    ( /\ last.op = "Open" \/ IsAuthenticatedCall
      /\ sent # <<>>
      /\ IsLoginExchange(sent[1])
      /\ last.rs # <<>>
      /\ LoginFailed(last.rs[1]) )
    => /\ last.res.kind \in {"transport", "apierror", "status", "contenttype", "decode"}
       /\ Len(sent) = 1
       /\ token = ""
       /\ validUntil = ZeroTime

----------------------------------------------------------------------------
(* C13 *)

\* The tokens login exchanges have returned: the one of Open, and those the
\* concurrent callers have received.
TokensReturned ==
    {"abc"} \cup { calls[g].resp.access_token :
                     g \in { h \in Goroutines : calls[h].resp.kind = "object" } }

\* C13: while two goroutines call at the same time, every request other
\* than a login exchange carries a token some login exchange has returned,
\* never the empty token; and when both calls have returned after a login,
\* the token and the expiry held are those of the login that returned last.
C13_RaceOnlyRedundantLogins ==
    /\ ~Quiet =>
          \A i \in 1..Len(sent) :
              sent[i].auth = "Bearer" =>
                  /\ sent[i].cred[1] # ""
                  /\ sent[i].cred[1] \in TokensReturned
    /\ ((\A g \in Goroutines : calls[g].pc = "done") /\ logins # <<>>) =>
          /\ token = logins[Len(logins)].token
          /\ validUntil = logins[Len(logins)].validUntil

----------------------------------------------------------------------------
(* C14 *)

\* The last call started with a token that was held and not yet expired.
HeldFreshToken == pre.token # "" /\ last.t < pre.validUntil

\* The fields of the Client other than token and expiry are as they were
\* when the last operation started.
RestUnchanged ==
    /\ Username = pre.Username
    /\ Password = pre.Password
    /\ BaseURL = pre.BaseURL
    /\ Timeout = pre.Timeout
    /\ prefix = pre.prefix
    /\ url = pre.url
    /\ opened = pre.opened

\* C14: an authenticated call that starts with a held token before its
\* expiry sends no login exchange and leaves token and expiry as they were,
\* whatever the answer to its request; and a call changes nothing of the
\* session but token and expiry, and those only in a credential refresh
\* (an authenticated call that starts without a fresh token and logs in).
C14_FreshTokenNoRefresh ==
    /\ (IsAuthenticatedCall /\ HeldFreshToken) =>
          /\ \A i \in 1..Len(sent) : ~IsLoginExchange(sent[i])
          /\ Len(sent) <= 1
          /\ CredentialUnchanged
    /\ IsCallOp =>
          /\ RestUnchanged
          /\ ~CredentialUnchanged =>
                /\ IsAuthenticatedCall
                /\ ~HeldFreshToken
                /\ sent # <<>>
                /\ IsLoginExchange(sent[1])

\* A call with a fresh token is answered 200 without the JSON content type:
\* the protocol error is returned and the session is as it was.
C14_Witness ==
    /\ IsAuthenticatedCall
    /\ HeldFreshToken
    /\ OwnRequestAnswered
    /\ OwnResponse.code = 200
    /\ last.res.kind = "contenttype"
    /\ Len(sent) = 1
    /\ Client = pre

----------------------------------------------------------------------------
(* C15 *)

\* C15: a request carries identity-based (Basic) authorization, with the
\* username and the password, exactly if it is the GET of login/v1; every
\* other request, a non-GET verb on login/v1 included, carries Bearer
\* authorization with the token the session holds, and not the password.
C15_BasicOnlyForLoginRead ==
    \A i \in 1..Len(sent) :
        LET q == sent[i] IN
        /\ q.auth = "Basic" <=> (q.method = "GET" /\ q.query = LoginQuery)
        /\ q.auth = "Basic" => q.cred = <<Username, Password>>
        /\ q.auth # "Basic" =>
              /\ q.auth = "Bearer"
              /\ q.cred = <<token>>
              /\ \A k \in 1..Len(q.cred) : q.cred[k] # Password

\* A POST addressed to login/v1 goes out after a login exchange, with the
\* token that login returned.
C15_Witness ==
    /\ last.op = "Call"
    /\ last.args.method = "POST"
    /\ last.args.query = LoginQuery
    /\ Len(sent) = 2
    /\ sent[1].auth = "Basic"
    /\ sent[2].method = "POST"
    /\ sent[2].query = LoginQuery
    /\ sent[2].auth = "Bearer"
    /\ sent[2].cred = <<"abc">>

----------------------------------------------------------------------------
(* C16 *)

\* The operation that ran last is a verb wrapper.
IsWrapperOp == last.op \in {"Unmarshal", "Get", "Post", "Put", "Delete"}

\* What Call returns for the arguments, the session, the instant and the
\* responses of the wrapper that ran last.
UnderlyingCall ==
    Call(pre, last.args.method, last.args.query, last.args.data, last.t, last.rs).res

\* C16: a verb wrapper without a destination returns what the underlying
\* Call returns: an error exactly when Call returned one, and no error when
\* the dispatch succeeded, whether or not the body decodes.  With a
\* destination, an error of Call is returned as it is, and after a
\* successful dispatch the body is decoded: the result is the decode error
\* if the body does not decode and no error if it does.
C16_NilDestinationNoDecode ==
    IsWrapperOp =>
        LET u == UnderlyingCall IN
        /\ last.args.dest = "nil" => last.res = u
        /\ last.args.dest # "nil" =>
              /\ u.kind # "ok" => last.res = u
              /\ (u.kind = "ok" /\ u.body.kind = "malformed") => last.res.kind = "decode"
              /\ (u.kind = "ok" /\ u.body.kind # "malformed") => last.res.kind = "ok"

\* Delete without a destination is answered 200 with a body that is not
\* JSON, and returns no error.
C16_Witness ==
    /\ last.op = "Delete"
    /\ last.args.dest = "nil"
    /\ OwnRequestAnswered
    /\ OwnResponse = Reply(200, JSON, MalformedBody)
    /\ last.res.kind = "ok"

----------------------------------------------------------------------------
(* C17 *)

\* The login exchanges among the requests of the last operation.
LoginExchanges == {i \in 1..Len(sent) : IsLoginExchange(sent[i])}

\* C17: every operation returns without waiting for an answer to a further
\* request, and every request it sent was answered.  Open sends at most one
\* request, a login exchange.  A call sends at most two: at most one login
\* exchange, and when it sends two the first is the login exchange and the
\* second is the request of the call itself.  The login exchange is the
\* only request a login sends: it never refreshes the credential itself.
C17_AtMostOneLoginOneRequest ==
    /\ last.res.kind # "blocked"
    /\ Len(last.rs) = Len(sent)
    /\ last.op = "Open" =>
          /\ Len(sent) <= 1
          /\ LoginExchanges = 1..Len(sent)
    /\ IsCallOp =>
          /\ Len(sent) <= 2
          /\ Cardinality(LoginExchanges) <= 1
          /\ Len(sent) = 2 =>
                /\ LoginExchanges = {1}
                /\ sent[2].method = Verb
                /\ sent[2].query = last.args.query

\* A call whose token has expired logs in, is given an empty token that has
\* expired already, and sends its own request without a further login.
C17_Witness ==
    /\ IsAuthenticatedCall
    /\ pre.token # ""
    /\ pre.validUntil < last.t
    /\ Len(sent) = 2
    /\ LoginAccepted(last.rs[1])
    /\ last.rs[1].body.access_token = ""
    /\ last.rs[1].body.expires_in < 0
    /\ token = ""
    /\ sent[2].auth = "Bearer"
    /\ last.res.kind = "ok"

----------------------------------------------------------------------------
(* C18 *)

\* The stored endpoint root and the stored prefix are those of base URL b.
AddressFrom(b) ==
    /\ b # <<>>
    /\ b[1] # ":"
    /\ url = [nil |-> FALSE, root |-> b[1], Path |-> <<>>]
    /\ prefix = Tail(b)
    /\ prefix # <<>>

\* C18: whenever opened is true, the stored endpoint root and the stored
\* prefix come from one and the same base URL; and an Open that fails on an
\* opened session leaves the stored root and prefix, and so the address of
\* later requests, as they were.
C18_AddressFromOneBaseURL ==
    /\ opened => \E b \in BaseURLs : AddressFrom(b)
    /\ (last.op = "Open" /\ last.res.kind # "ok" /\ pre.opened) =>
          /\ url = pre.url
          /\ prefix = pre.prefix

====
